---- MODULE Spec2Model ----
(***************************************************************************)
(* Model of the govcr request-filter pipeline (request.go), of the filter  *)
(* chain operations on its slice type, and of the interception engine as   *)
(* used by Example7.                                                       *)
(*                                                                         *)
(* Go strings are modelled as sequences of one-character strings so that   *)
(* regular-expression matching, URL formatting and header-key              *)
(* canonicalisation are computed, character by character.                  *)
(***************************************************************************)
EXTENDS Integers, Sequences, FiniteSets, TLC

VARIABLES
    \* ---- filter application (request.go:19-78, 100-108)
    hdrs,        \* heap of http.Header maps: reference -> (canonical key -> values)
    q,           \* the Request value the caller passes to the filter
    hdrsBefore,  \* the header heap at the moment of the call
    out,         \* the Request value the filter returned
    flt,         \* the filter the caller holds (a RequestFilter value)
    chain,       \* the content of the caller's RequestFilters chain
    applied,     \* the filter that was applied in the last call
    lastBuild,   \* the last OnPath construction: its pattern and receiver
    pc,          \* "idle", "applied" or "panicked"
    \* ---- slices of filters (request.go:80-98)
    arrays,      \* heap of backing arrays: id -> sequence of cap slots
    slices,      \* the caller's chain variables: name -> slice header
    snap,        \* per chain variable: the content it had when it was assigned
    origin,      \* per chain variable: the operation that assigned it
    lastOp,      \* the chain operation of the last step
    nops,        \* number of chain operations performed
    \* ---- interception engine (Example7)
    cassette,    \* sequence of Tracks
    delivered    \* log of what each caller of the engine received

filterVars == <<hdrs, q, hdrsBefore, out, flt, chain, applied, lastBuild, pc>>
sliceVars  == <<arrays, slices, snap, origin, lastOp, nops>>
engineVars == <<cassette, delivered>>
vars == <<hdrs, q, hdrsBefore, out, flt, chain, applied, lastBuild, pc,
          arrays, slices, snap, origin, lastOp, nops,
          cassette, delivered>>

----------------------------------------------------------------------------
(* Bounds *)

MaxChain == 2      \* longest chain handed to combined()
MaxDepth == 1      \* deepest nesting of guards around a filter

----------------------------------------------------------------------------
(* Strings *)

s_order   == <<"/", "o", "r", "d", "e", "r", "/">>
s_http    == <<"h", "t", "t", "p">>
s_host    == <<"h">>
s_local   == <<"1", "2", "7", ".", "0", ".", "0", ".", "1">>
s_1234    == <<"1", "2", "3", "4">>
s_111     == <<"1", "1", "1">>
s_222     == <<"2", "2", "2">>
s_x       == <<"/", "x">>
s_query   == <<"r", "="   , "/", "o", "r", "d", "e", "r", "/", "9">>

RECURSIVE IndexFrom(_, _, _)
IndexFrom(s, c, i) ==
    IF i > Len(s) THEN 0
    ELSE IF s[i] = c THEN i
    ELSE IndexFrom(s, c, i + 1)

----------------------------------------------------------------------------
(* regexp: the subset  literal  .  *  ^  $  of Go's syntax *)

\* The atom a pattern character stands for.
Atom(c) ==
    IF c = "." THEN [op |-> "any", c |-> c, star |-> FALSE]
    ELSE IF c = "^" THEN [op |-> "bol", c |-> c, star |-> FALSE]
    ELSE IF c = "$" THEN [op |-> "eol", c |-> c, star |-> FALSE]
    ELSE [op |-> "lit", c |-> c, star |-> FALSE]

\* regexp.Compile: parse left to right; a repetition operator needs an
\* operand before it and may not follow another repetition operator.
RECURSIVE Parse(_, _, _, _)
Parse(p, i, prog, lastRepeat) ==
    IF i > Len(p) THEN [ok |-> TRUE, prog |-> prog]
    ELSE IF p[i] = "*" THEN
        IF lastRepeat \/ Len(prog) = 0
        THEN [ok |-> FALSE, prog |-> <<>>]
        ELSE Parse(p, i + 1,
                   [prog EXCEPT ![Len(prog)].star = TRUE], TRUE)
    ELSE Parse(p, i + 1, Append(prog, Atom(p[i])), FALSE)

Compile(p) == Parse(p, 1, <<>>, FALSE)

\* Does the program match s starting at offset i (0-based), from atom k on?
RECURSIVE MatchHere(_, _, _, _)
MatchHere(prog, k, s, i) ==
    IF k > Len(prog) THEN TRUE
    ELSE LET a == prog[k]
             width == a.op \in {"lit", "any"}
             step == /\ i < Len(s)
                     /\ (a.op = "any" \/ s[i + 1] = a.c)
             holds == IF a.op = "bol" THEN i = 0 ELSE i = Len(s)
         IN  IF a.star
             THEN \/ MatchHere(prog, k + 1, s, i)
                  \/ (width /\ step /\ MatchHere(prog, k, s, i + 1))
             ELSE IF width THEN step /\ MatchHere(prog, k + 1, s, i + 1)
             ELSE holds /\ MatchHere(prog, k + 1, s, i)

\* (*Regexp).MatchString: an unanchored search.
MatchString(prog, s) ==
    \E i \in 0..Len(s) : MatchHere(prog, 1, s, i)

----------------------------------------------------------------------------
(* net/url.URL and net/http.Header as the filters use them *)

\* (*URL).String() for URLs without opaque part, user info or fragment.
URLString(u) ==
    LET scheme == IF u.Scheme # <<>> THEN u.Scheme \o <<":">> ELSE <<>>
        auth   == IF u.Scheme # <<>> \/ u.Host # <<>>
                  THEN (IF u.Host # <<>> \/ u.Path # <<>>
                        THEN <<"/", "/">> ELSE <<>>) \o u.Host
                  ELSE <<>>
        slash  == IF u.Path # <<>> /\ u.Path[1] # "/" /\ u.Host # <<>>
                  THEN <<"/">> ELSE <<>>
        query  == IF u.RawQuery # <<>> THEN <<"?">> \o u.RawQuery ELSE <<>>
    IN  scheme \o auth \o slash \o u.Path \o query

Upper(c) ==
    IF c = "x" THEN "X" ELSE IF c = "a" THEN "A" ELSE IF c = "b" THEN "B" ELSE c

Lower(c) ==
    IF c = "X" THEN "x" ELSE IF c = "A" THEN "a" ELSE IF c = "B" THEN "b" ELSE c

\* textproto.CanonicalMIMEHeaderKey: upper-case the first letter and every
\* letter after a hyphen, lower-case the rest.
CanonicalKey(k) ==
    [i \in 1..Len(k) |->
        IF i = 1 \/ k[i - 1] = "-" THEN Upper(k[i]) ELSE Lower(k[i])]

k_xa == <<"x", "-", "a">>
k_XA == <<"X", "-", "A">>
k_XB == <<"X", "-", "B">>

Keys == {k_xa, k_XA, k_XB}
CanonKeys == {CanonicalKey(k) : k \in Keys}
Values == {"1", "2"}

\* A header map holds, per canonical key, its list of values; the empty
\* list stands for an absent key.
EmptyHeader == [k \in CanonKeys |-> <<>>]

\* Header.Add: append the value to the values of the canonical key.
HeaderAdd(h, key, value) ==
    [h EXCEPT ![CanonicalKey(key)] = Append(@, value)]

\* Header.Del: remove the canonical key.
HeaderDel(h, key) ==
    [h EXCEPT ![CanonicalKey(key)] = <<>>]

----------------------------------------------------------------------------
(* Request and RequestFilter *)

HdrRefs == {1, 2}
Methods == {"GET", "POST"}

Patterns == {<<>>, s_order, <<"^">> \o s_order, <<"*">>, <<"x", "*", "*">>}

u_order111 == [Scheme |-> s_http, Host |-> s_host,
               Path |-> s_order \o s_111, RawQuery |-> <<>>]
u_query    == [Scheme |-> s_http, Host |-> s_host,
               Path |-> s_x, RawQuery |-> s_query]
u_relative == [Scheme |-> <<>>, Host |-> <<>>,
               Path |-> s_order \o s_222, RawQuery |-> <<>>]
URLs == {u_order111, u_query, u_relative}

\* A filter is a Go closure; it is represented by the function literal it
\* was created from together with the variables it captured.
RequestAddHeaderValue(key, value) ==
    [kind |-> "addHeader", key |-> key, value |-> value]

RequestDeleteHeaderKeys(keys) ==
    [kind |-> "delHeader", keys |-> keys]

OnMethod(r, method) ==
    [kind |-> "onMethod", method |-> method, r |-> r]

\* regexp.MustCompile panics when the pattern does not compile; the panic
\* leaves OnPath before the closure is created.
OnPath_lazy(r, pathRegEx) ==
    LET pat == IF pathRegEx = <<>> THEN <<".", "*">> ELSE pathRegEx
    IN  [kind |-> "onPath", pat |-> pat, re |-> Compile(pat), r |-> r]

OnPath(r, pathRegEx) ==
    LET pat == IF pathRegEx = <<>> THEN <<".", "*">> ELSE pathRegEx
        re  == Compile(pat)
    IN  IF ~re.ok THEN [kind |-> "panic"]
        ELSE [kind |-> "onPath", pat |-> pat, re |-> re, r |-> r]

combined(r) ==
    [kind |-> "combined", r |-> r]

\* Example7's replacePath filter.
replacePath == [kind |-> "replacePath"]

\* Calling a filter.  st is the pair of the Request value passed (by value)
\* and the heap its Header reference points into; the result is the Request
\* value returned and the heap after the call.
RECURSIVE Apply(_, _)

\* The closure returned by OnMethod.
OnMethodFunc_inverted(f, st) ==
    IF st.req.Method = f.method THEN st ELSE Apply(f.r, st)

OnMethodFunc(f, st) ==
    IF st.req.Method # f.method THEN st ELSE Apply(f.r, st)

\* The closure returned by OnPath.
OnPathFunc_pathOnly(f, st) ==
    IF ~MatchString(f.re.prog, st.req.URL.Path) THEN st ELSE Apply(f.r, st)

OnPathFunc(f, st) ==
    IF ~MatchString(f.re.prog, URLString(st.req.URL)) THEN st
    ELSE Apply(f.r, st)

\* The closure returned by RequestAddHeaderValue: req.Header is a map, so
\* Add writes into the map the caller's Request refers to as well.
AddHeaderValueFunc(f, st) ==
    [st EXCEPT !.heap[st.req.Header] = HeaderAdd(@, f.key, f.value)]

\* The closure returned by RequestDeleteHeaderKeys.
RECURSIVE DeleteHeaderKeysFunc(_, _, _)
DeleteHeaderKeysFunc(f, i, st) ==
    IF i > Len(f.keys) THEN st
    ELSE DeleteHeaderKeysFunc(f, i + 1,
            [st EXCEPT !.heap[st.req.Header] = HeaderDel(@, f.keys[i])])

\* Example7's replacePath closure.
replacePathFunc(f, st) ==
    [st EXCEPT !.req.URL.Path = s_order \o s_1234,
               !.req.URL.Host = s_local]

\* The closure returned by combined: for _, filter := range r.
RECURSIVE combinedLoop_reverse(_, _, _)
combinedLoop_reverse(r, i, st) ==
    IF i > Len(r) THEN st
    ELSE Apply(r[i], combinedLoop_reverse(r, i + 1, st))

RECURSIVE combinedLoop(_, _, _)
combinedLoop(r, i, st) ==
    IF i > Len(r) THEN st
    ELSE combinedLoop(r, i + 1, Apply(r[i], st))

Apply(f, st) ==
    CASE f.kind = "addHeader"   -> AddHeaderValueFunc(f, st)
      [] f.kind = "delHeader"   -> DeleteHeaderKeysFunc(f, 1, st)
      [] f.kind = "replacePath" -> replacePathFunc(f, st)
      [] f.kind = "onMethod"    -> OnMethodFunc(f, st)
      [] f.kind = "onPath"      -> OnPathFunc(f, st)
      [] f.kind = "combined"    -> combinedLoop(f.r, 1, st)

RECURSIVE Depth(_)
Depth(f) ==
    IF f.kind \in {"onMethod", "onPath"} THEN 1 + Depth(f.r) ELSE 0

BaseFilters ==
    {RequestAddHeaderValue(k_xa, "1"), RequestAddHeaderValue(k_XB, "2"),
     RequestDeleteHeaderKeys(<<k_xa>>), RequestDeleteHeaderKeys(<<k_XB, k_XA>>),
     replacePath}

InitHeaders == {EmptyHeader, [EmptyHeader EXCEPT ![k_XA] = <<"1">>]}

Requests ==
    {[Header |-> 1, Body |-> <<"b">>, Method |-> m, URL |-> u] :
        m \in Methods, u \in URLs}

nilFilter == [kind |-> "nil"]
noBuild == [op |-> "none"]

\* The filters the caller puts into a chain.
ChainFilters ==
    BaseFilters \cup
        {OnMethod(RequestAddHeaderValue(k_XB, "2"), "POST"),
         OnPath(replacePath, s_order)}

----------------------------------------------------------------------------
(* The caller of the filters *)

\* Building a filter or a chain starts from a state without a call record.
NoCall ==
    /\ hdrs' = [r \in HdrRefs |-> EmptyHeader]
    /\ hdrsBefore' = [r \in HdrRefs |-> EmptyHeader]
    /\ q' = [Header |-> 1, Body |-> <<>>, Method |-> "GET", URL |-> u_order111]
    /\ out' = q'
    /\ applied' = nilFilter

\* flt := f
NewFilter(f) ==
    /\ pc # "panicked"
    /\ flt' = f
    /\ chain' = <<>>
    /\ pc' = "idle"
    /\ lastBuild' = noBuild
    /\ NoCall
    /\ UNCHANGED <<sliceVars, engineVars>>

\* flt = flt.OnMethod(m)
WrapOnMethod(m) ==
    /\ pc # "panicked"
    /\ flt.kind # "nil"
    /\ Depth(flt) < MaxDepth
    /\ flt' = OnMethod(flt, m)
    /\ pc' = "idle"
    /\ lastBuild' = noBuild
    /\ NoCall
    /\ UNCHANGED <<chain, sliceVars, engineVars>>

\* flt = flt.OnPath(p); a panic ends the program before the assignment.
WrapOnPath(p) ==
    /\ pc # "panicked"
    /\ flt.kind # "nil"
    /\ Depth(flt) < MaxDepth
    /\ LET g == OnPath(flt, p)
       IN  IF g.kind = "panic"
           THEN pc' = "panicked" /\ flt' = flt
           ELSE pc' = "idle" /\ flt' = g
    /\ lastBuild' = [op |-> "OnPath", pat |-> p, r |-> flt]
    /\ NoCall
    /\ UNCHANGED <<chain, sliceVars, engineVars>>

\* chain.Add(f)
ChainAdd(f) ==
    /\ pc # "panicked"
    /\ Len(chain) < MaxChain
    /\ chain' = chain \o <<f>>
    /\ flt' = nilFilter
    /\ pc' = "idle"
    /\ lastBuild' = noBuild
    /\ NoCall
    /\ UNCHANGED <<sliceVars, engineVars>>

Call(f, req, heap) ==
    LET res == Apply(f, [req |-> req, heap |-> heap])
    IN  /\ q' = req
        /\ hdrsBefore' = heap
        /\ out' = res.req
        /\ hdrs' = res.heap
        /\ applied' = f
        /\ pc' = "applied"

ApplyFilter ==
    /\ pc # "panicked"
    /\ flt.kind # "nil"
    /\ \E req \in Requests, heap \in [HdrRefs -> InitHeaders] :
           Call(flt, req, heap)
    /\ UNCHANGED <<flt, chain, lastBuild>>
    /\ UNCHANGED <<sliceVars, engineVars>>

ApplyChain ==
    /\ pc # "panicked"
    /\ \E req \in Requests, heap \in [HdrRefs -> InitHeaders] :
           Call(combined(chain), req, heap)
    /\ UNCHANGED <<flt, chain, lastBuild>>
    /\ UNCHANGED <<sliceVars, engineVars>>

----------------------------------------------------------------------------
(* Slices of filters: RequestFilters is []RequestFilter *)

MaxOps   == 3      \* chain operations per behaviour
MaxSpare == 1      \* spare capacity a growing append may allocate

ChainVars   == {"c", "c2"}
NewFilters  == {<<"f">>, <<"g">>, <<"f", "g">>}

nilSlice == [arr |-> 0, len |-> 0, cap |-> 0]

\* The elements a slice value shows: positions 1..len of its backing array.
View(arrs, s) ==
    [i \in 1..s.len |-> arrs[s.arr][i]]

\* make([]T, 0, n) followed by nothing: a fresh array of n empty slots.
Blank(n) == [i \in 1..n |-> "nil"]

\* The built-in append(s, fs...): write in place when the capacity
\* suffices, otherwise copy into a fresh array of capacity newcap.
GoAppend(arrs, s, fs, newcap) ==
    LET n == Len(fs)
    IN  IF s.len + n <= s.cap
        THEN [arrays |-> IF n = 0 THEN arrs
                         ELSE [arrs EXCEPT ![s.arr] =
                                [i \in 1..s.cap |->
                                    IF i > s.len /\ i <= s.len + n
                                    THEN fs[i - s.len] ELSE @[i]]],
              slice  |-> [s EXCEPT !.len = s.len + n]]
        ELSE [arrays |-> Append(arrs,
                                [i \in 1..newcap |->
                                    IF i <= s.len THEN arrs[s.arr][i]
                                    ELSE IF i <= s.len + n THEN fs[i - s.len]
                                    ELSE "nil"]),
              slice  |-> [arr |-> Len(arrs) + 1, len |-> s.len + n,
                          cap |-> newcap]]

\* The capacities a growing append may choose for n elements.
GrowCaps(n) == n..(n + MaxSpare)

\* func (r RequestFilters) Append(filters ...RequestFilter) RequestFilters
RequestFilters_Append_reuse(arrs, r, filters, newcap) ==
    GoAppend(arrs, [r EXCEPT !.len = 0], filters, newcap)

RequestFilters_Append(arrs, r, filters, newcap) ==
    GoAppend(arrs, r, filters, newcap)

\* func (r *RequestFilters) Add(filters ...RequestFilter)
RequestFilters_Add(arrs, r, filters, newcap) ==
    LET v == r
    IN  GoAppend(arrs, v, filters, newcap)

\* func (r RequestFilters) Prepend(filters ...RequestFilter) RequestFilters
RequestFilters_Prepend_after(arrs, r, filters) ==
    LET total == Len(filters) + r.len
        made  == [arrays |-> Append(arrs, Blank(total)),
                  slice  |-> [arr |-> Len(arrs) + 1, len |-> 0, cap |-> total]]
        first == GoAppend(made.arrays, made.slice, View(arrs, r), total)
    IN  GoAppend(first.arrays, first.slice, filters, total)

RequestFilters_Prepend(arrs, r, filters) ==
    LET total == Len(filters) + r.len
        made  == [arrays |-> Append(arrs, Blank(total)),
                  slice  |-> [arr |-> Len(arrs) + 1, len |-> 0, cap |-> total]]
        first == GoAppend(made.arrays, made.slice, filters, total)
    IN  GoAppend(first.arrays, first.slice, View(arrs, r), total)

noOp == [op |-> "none"]

\* The record of one chain operation: the receiver's slice value and the
\* elements it showed before the call, and, when the receiver had been
\* returned by Prepend, the chain Prepend was called on.
OpRecord(op, x, y, fs) ==
    [op |-> op, src |-> x, dst |-> y, filters |-> fs,
     r |-> slices[x], rBefore |-> View(arrays, slices[x]),
     watch |-> IF origin[x].op = "Prepend"
               THEN [on |-> TRUE, r |-> origin[x].r,
                     content |-> View(arrays, origin[x].r)]
               ELSE [on |-> FALSE]]

Assign(y, res, op, x) ==
    /\ arrays' = res.arrays
    /\ slices' = [slices EXCEPT ![y] = res.slice]
    /\ snap'   = [snap EXCEPT ![y] = View(res.arrays, res.slice)]
    /\ origin' = [origin EXCEPT ![y] = [op |-> op, r |-> slices[x]]]
    /\ nops'   = nops + 1

\* y = x.Append(fs...)
DoAppend(x, y, fs) ==
    /\ nops < MaxOps
    /\ \E newcap \in GrowCaps(slices[x].len + Len(fs)) :
          Assign(y, RequestFilters_Append(arrays, slices[x], fs, newcap),
                 "Append", x)
    /\ lastOp' = OpRecord("Append", x, y, fs)
    /\ UNCHANGED <<filterVars, engineVars>>

\* x.Add(fs...)
DoAdd(x, fs) ==
    /\ nops < MaxOps
    /\ \E newcap \in GrowCaps(slices[x].len + Len(fs)) :
          Assign(x, RequestFilters_Add(arrays, slices[x], fs, newcap),
                 "Add", x)
    /\ lastOp' = OpRecord("Add", x, x, fs)
    /\ UNCHANGED <<filterVars, engineVars>>

\* y = x.Prepend(fs...)
DoPrepend(x, y, fs) ==
    /\ nops < MaxOps
    /\ Assign(y, RequestFilters_Prepend(arrays, slices[x], fs), "Prepend", x)
    /\ lastOp' = OpRecord("Prepend", x, y, fs)
    /\ UNCHANGED <<filterVars, engineVars>>

----------------------------------------------------------------------------
(* Example7: the test server, its filters, and the interception engine *)

MaxSends == 3      \* requests sent through the engine per behaviour

s_name == <<"T">>

\* reOrderID.FindStringSubmatch(s)[1] for reOrderID = `/order/([^/]+)`:
\* the longest run of non-slash characters after the leftmost "/order/"
\* that is followed by one; <<>> when there is no match.
RECURSIVE RunEnd(_, _)
RunEnd(s, i) ==
    IF i > Len(s) \/ s[i] = "/" THEN i - 1 ELSE RunEnd(s, i + 1)

RECURSIVE FindOrderID(_, _)
FindOrderID(s, i) ==
    IF i + Len(s_order) > Len(s) THEN <<>>
    ELSE IF SubSeq(s, i, i + Len(s_order) - 1) = s_order
            /\ s[i + Len(s_order)] # "/"
         THEN SubSeq(s, i + Len(s_order), RunEnd(s, i + Len(s_order)))
         ELSE FindOrderID(s, i + 1)

\* json.Marshal(Order{ID, Name})
Marshal(o) ==
    <<"{", "\"", "i", "d", "\"", ":", "\"">> \o o.ID \o
    <<"\"", ",", "\"", "n", "a", "m", "e", "\"", ":", "\"">> \o o.Name \o
    <<"\"", "}">>

\* json.Unmarshal(body, &o): the two quoted values of the object.
Unmarshal(b) ==
    LET q1 == IndexFrom(b, ":", 1) + 1
        e1 == IndexFrom(b, "\"", q1 + 1)
        q2 == IndexFrom(b, ":", e1) + 1
        e2 == IndexFrom(b, "\"", q2 + 1)
    IN  IF Len(b) = 0 \/ q1 = 1 \/ e1 = 0 \/ q2 = 1 \/ e2 = 0
        THEN [ok |-> FALSE]
        ELSE [ok |-> TRUE, ID |-> SubSeq(b, q1 + 1, e1 - 1),
              Name |-> SubSeq(b, q2 + 1, e2 - 1)]

\* The test server's handler, given the request it received.
handler(req) ==
    LET uri == req.URL.Path \o
               (IF req.URL.RawQuery # <<>> THEN <<"?">> \o req.URL.RawQuery
                ELSE <<>>)
        id  == FindOrderID(uri, 1)
    IN  IF id = <<>> THEN [StatusCode |-> 404, Body |-> <<>>]
        ELSE [StatusCode |-> 200,
              Body |-> Marshal([ID |-> id, Name |-> s_name])]

\* cfg.RequestFilters after cfg.RequestFilters.Add(replacePath.OnPath(`/order/`))
cfgRequestFilters == <<OnPath(replacePath, s_order)>>

\* The response filter of Example7 under its OnStatus(200) guard.  resp.req
\* is the request the response refers back to.
responseFilter(resp) ==
    IF resp.StatusCode # 200 THEN resp
    ELSE LET orderID == FindOrderID(URLString(resp.req.URL), 1)
             o == Unmarshal(resp.Body)
         IN  IF ~o.ok \/ orderID = <<>>
             THEN [resp EXCEPT !.StatusCode = 0]     \* the filter panics
             ELSE [resp EXCEPT !.Body = Marshal([o EXCEPT !.ID = orderID])]

\* The requests Example7's client can make.
Incoming ==
    {[Header |-> 1, Body |-> <<>>, Method |-> m,
      URL |-> [Scheme |-> s_http, Host |-> s_host, Path |-> pth,
               RawQuery |-> <<>>]] :
        m \in Methods, pth \in {s_order \o s_111, s_order \o s_222, s_x}}

\* Step 1: the request filter chain applied to the incoming request.
Filtered(req) ==
    Apply(combined(cfgRequestFilters),
          [req |-> req, heap |-> [r \in HdrRefs |-> EmptyHeader]]).req

\* Step 2: the first unplayed Track whose stored request equals the
\* filtered request; 0 on a miss.
RECURSIVE Match(_, _, _)
Match(tracks, req, i) ==
    IF i > Len(tracks) THEN 0
    ELSE IF ~tracks[i].played /\ tracks[i].request = req THEN i
    ELSE Match(tracks, req, i + 1)

Deliver(req, resp, replayed, track) ==
    delivered' = Append(delivered,
                        [request |-> req, status |-> resp.StatusCode,
                         body |-> resp.Body, replayed |-> replayed,
                         track |-> track])

\* Steps 3: replay the matched Track; the response refers back to the
\* current filtered request.
Replay(req) ==
    LET f == Filtered(req)
        i == Match(cassette, f, 1)
    IN  /\ Len(delivered) < MaxSends
        /\ i # 0
        /\ cassette' = [cassette EXCEPT ![i].played = TRUE]
        /\ Deliver(req,
                   responseFilter([StatusCode |-> cassette[i].response.StatusCode,
                                   Body |-> cassette[i].response.Body,
                                   req |-> f]),
                   TRUE, i)
        /\ UNCHANGED <<filterVars, sliceVars>>

\* Steps 4 to 6: on a miss the filtered request goes to the live transport,
\* the exchange is recorded, and the filtered response is returned.
Live(req) ==
    LET f   == Filtered(req)
        raw == handler(f)
    IN  /\ Len(delivered) < MaxSends
        /\ Match(cassette, f, 1) = 0
        /\ cassette' = Append(cassette,
                              [request |-> f, response |-> raw,
                               played |-> FALSE])
        /\ Deliver(req,
                   responseFilter([StatusCode |-> raw.StatusCode,
                                   Body |-> raw.Body, req |-> f]),
                   FALSE, Len(cassette) + 1)
        /\ UNCHANGED <<filterVars, sliceVars>>

\* Step 4, failure: the transport error goes to the caller, nothing is
\* recorded.
LiveFail(req) ==
    /\ Len(delivered) < MaxSends
    /\ Match(cassette, Filtered(req), 1) = 0
    /\ Deliver(req, [StatusCode |-> -1, Body |-> <<>>], FALSE, 0)
    /\ UNCHANGED <<cassette, filterVars, sliceVars>>

----------------------------------------------------------------------------
(* Specifications *)

Init ==
    /\ hdrs = [r \in HdrRefs |-> EmptyHeader]
    /\ hdrsBefore = [r \in HdrRefs |-> EmptyHeader]
    /\ q = [Header |-> 1, Body |-> <<>>, Method |-> "GET", URL |-> u_order111]
    /\ out = q
    /\ flt = nilFilter
    /\ chain = <<>>
    /\ applied = nilFilter
    /\ lastBuild = noBuild
    /\ pc = "idle"
    /\ arrays = <<>>
    /\ slices = [x \in ChainVars |-> nilSlice]
    /\ snap = [x \in ChainVars |-> <<>>]
    /\ origin = [x \in ChainVars |-> [op |-> "nil", r |-> nilSlice]]
    /\ lastOp = noOp
    /\ nops = 0
    /\ cassette = <<>>
    /\ delivered = <<>>

NextFilter ==
    \/ \E f \in BaseFilters : NewFilter(f)
    \/ \E m \in Methods : WrapOnMethod(m)
    \/ \E p \in Patterns : WrapOnPath(p)
    \/ \E f \in ChainFilters : ChainAdd(f)
    \/ ApplyFilter
    \/ ApplyChain

SpecFilter == Init /\ [][NextFilter]_vars

NextChain ==
    \/ \E x \in ChainVars, y \in ChainVars, fs \in NewFilters : DoAppend(x, y, fs)
    \/ \E x \in ChainVars, fs \in NewFilters : DoAdd(x, fs)
    \/ \E x \in ChainVars, y \in ChainVars, fs \in NewFilters : DoPrepend(x, y, fs)

SpecChain == Init /\ [][NextChain]_vars

NextEngine ==
    \/ \E req \in Incoming : Replay(req)
    \/ \E req \in Incoming : Live(req)
    \/ \E req \in Incoming : LiveFail(req)

SpecEngine == Init /\ [][NextEngine]_vars

----------------------------------------------------------------------------
(* Properties of the filters *)

\* The call of the last step, as the pair Apply works on.
CallIn  == [req |-> q, heap |-> hdrsBefore]
CallOut == [req |-> out, heap |-> hdrs]

\* C1: f.OnMethod(m) applied to q returns q unmodified when q.Method
\* differs from m and returns exactly f(q) when q.Method equals m.
C1_OnMethodGuard ==
    (pc = "applied" /\ applied.kind = "onMethod") =>
        IF q.Method = applied.method
        THEN CallOut = Apply(applied.r, CallIn)
        ELSE CallOut = CallIn

C1_Witness ==
    /\ pc = "applied"
    /\ applied.kind = "onMethod"
    /\ applied.method = "POST"
    /\ q.Method = "POST"
    /\ CallOut # CallIn

\* C2: after a filter returns, the Request value that was passed in still
\* has the header keys and values it had before the call.
C2_InputUnchanged ==
    pc = "applied" => hdrs[q.Header] = hdrsBefore[q.Header]

\* C4 as stated: the guard of f.OnPath(p) fires exactly when p matches the
\* path of the request's URL.
C4_PathOnly ==
    (pc = "applied" /\ applied.kind = "onPath") =>
        IF MatchString(Compile(applied.pat).prog, q.URL.Path)
        THEN CallOut = Apply(applied.r, CallIn)
        ELSE CallOut = CallIn

\* C4 amended: the guard of f.OnPath(p) fires exactly when p matches the
\* string form of the request's URL (scheme, host, path and query).
C4_URLString ==
    (pc = "applied" /\ applied.kind = "onPath") =>
        IF MatchString(Compile(applied.pat).prog, URLString(q.URL))
        THEN CallOut = Apply(applied.r, CallIn)
        ELSE CallOut = CallIn

C4_Witness ==
    /\ pc = "applied"
    /\ applied.kind = "onPath"
    /\ applied.pat = s_order
    /\ q.URL = u_query
    /\ CallOut # CallIn

\* The chain applied to st, last filter outermost.
RECURSIVE Nested(_, _, _)
Nested(r, n, st) ==
    IF n = 0 THEN st ELSE Apply(r[n], Nested(r, n - 1, st))

\* C5: combined applied to q returns fn(...f2(f1(q))...), and q itself
\* for the empty chain.
C5_Fold ==
    (pc = "applied" /\ applied.kind = "combined") =>
        /\ CallOut = Nested(applied.r, Len(applied.r), CallIn)
        /\ applied.r = <<>> => CallOut = CallIn

C5_Witness ==
    /\ pc = "applied"
    /\ applied.kind = "combined"
    /\ Len(applied.r) = 2
    /\ CallOut # Apply(applied.r[1], Apply(applied.r[2], CallIn))

\* C7: after RequestAddHeaderValue(key, value) the returned request's
\* header key holds exactly the single value, and the other keys are
\* unchanged.
C7_AddOverwrites ==
    (pc = "applied" /\ applied.kind = "addHeader") =>
        /\ hdrs[out.Header][CanonicalKey(applied.key)] = <<applied.value>>
        /\ \A k \in CanonKeys \ {CanonicalKey(applied.key)} :
              hdrs[out.Header][k] = hdrsBefore[q.Header][k]

\* A pattern of the modelled syntax is valid when every repetition
\* operator has an operand that is not itself a repetition.
ValidPattern(p) ==
    \A i \in 1..Len(p) : p[i] = "*" => (i > 1 /\ p[i - 1] # "*")

RECURSIVE Compiled(_)
Compiled(f) ==
    CASE f.kind = "onPath"   -> ValidPattern(f.pat) /\ f.re.ok /\ Compiled(f.r)
      [] f.kind = "onMethod" -> Compiled(f.r)
      [] f.kind = "combined" -> \A i \in 1..Len(f.r) : Compiled(f.r[i])
      [] OTHER -> TRUE

\* C8: OnPath(p) fails at construction for an invalid p and returns no
\* filter; for a valid p it returns the guarded filter; no filter held or
\* applied contains a pattern that did not compile.
C8_FailFast ==
    /\ lastBuild.op = "OnPath" =>
          /\ ValidPattern(lastBuild.pat) <=> pc # "panicked"
          /\ pc = "panicked" => flt = lastBuild.r
          /\ pc # "panicked" =>
                (flt.kind = "onPath" /\ flt.r = lastBuild.r)
    /\ Compiled(flt)
    /\ Compiled(applied)
    /\ \A i \in 1..Len(chain) : Compiled(chain[i])

C8_Witness ==
    /\ lastBuild.op = "OnPath"
    /\ lastBuild.pat = <<"x", "*", "*">>
    /\ pc = "panicked"

----------------------------------------------------------------------------
(* Properties of the chain operations *)

\* C3: r.Append(f...) returns r's filters followed by f..., and r keeps
\* its length and its filters.
C3_AppendFrame ==
    lastOp.op = "Append" =>
        /\ View(arrays, slices[lastOp.dst]) = lastOp.rBefore \o lastOp.filters
        /\ View(arrays, lastOp.r) = lastOp.rBefore
        /\ lastOp.src # lastOp.dst => slices[lastOp.src] = lastOp.r

C3_Witness ==
    /\ lastOp.op = "Append"
    /\ lastOp.src # lastOp.dst
    /\ lastOp.r.len > 0
    /\ lastOp.r.cap > lastOp.r.len
    /\ slices[lastOp.dst].arr = lastOp.r.arr

\* C9: r.Prepend(f...) returns a new chain holding f... followed by r's
\* filters, r keeps its length and content, and a later change to the
\* returned chain does not change r.
C9_Prepend ==
    /\ lastOp.op = "Prepend" =>
          /\ View(arrays, slices[lastOp.dst]) = lastOp.filters \o lastOp.rBefore
          /\ slices[lastOp.dst].len = Len(lastOp.filters) + lastOp.r.len
          /\ View(arrays, lastOp.r) = lastOp.rBefore
          /\ lastOp.src # lastOp.dst => slices[lastOp.src] = lastOp.r
          /\ \A x \in ChainVars \ {lastOp.dst} :
                slices[x].arr # slices[lastOp.dst].arr
    /\ (lastOp.op # "none" /\ lastOp.watch.on) =>
          View(arrays, lastOp.watch.r) = lastOp.watch.content

C9_Witness ==
    /\ lastOp.op = "Add"
    /\ lastOp.watch.on
    /\ lastOp.watch.r.len > 0
    /\ lastOp.watch.r.cap > lastOp.watch.r.len

\* C10: a chain obtained as c.Append(f...) keeps the content it was
\* returned with, whatever is appended or added to c afterwards.
C10_AppendIndependent ==
    \A y \in ChainVars :
        origin[y].op = "Append" => View(arrays, slices[y]) = snap[y]

----------------------------------------------------------------------------
(* Property of Example7 *)

OrderIDOf(d) == Unmarshal(d.body).ID

\* C6: /order/111 followed by /order/222 are matched against the same
\* stored request, the second is replayed from the Track the first
\* recorded, and the bodies received carry the ids 111 and 222.
C6_IdsReinjected ==
    (/\ Len(delivered) >= 2
     /\ delivered[1].request.URL.Path = s_order \o s_111
     /\ delivered[2].request.URL.Path = s_order \o s_222
     /\ delivered[1].request.Method = delivered[2].request.Method
     /\ delivered[1].status # -1) =>
        /\ delivered[2].replayed
        /\ delivered[2].track = delivered[1].track
        /\ cassette[delivered[1].track].request.URL.Path = s_order \o s_1234
        /\ delivered[1].status = 200 /\ OrderIDOf(delivered[1]) = s_111
        /\ delivered[2].status = 200 /\ OrderIDOf(delivered[2]) = s_222

====
